---- MODULE Spec2Model ----
(***************************************************************************)
(* Model of the Puzzle-Solver repository: the two search engines of        *)
(* puzzle_tools.py (depth_first_solve, breadth_first_solve) running over   *)
(* the three puzzle variants (WordLadderPuzzle, MNPuzzle,                  *)
(* GridPegSolitairePuzzle).                                                *)
(*                                                                         *)
(* Python strings are modelled as sequences of one-character strings, so   *)
(* that __str__ is a real conversion.  Python lists/tuples are sequences   *)
(* (1-based here, 0-based in the source).  None is the integer 0 wherever  *)
(* a PuzzleNode reference is expected (node references are 1..Len(heap)).  *)
(***************************************************************************)
EXTENDS Integers, Sequences, FiniteSets, TLC

(***************************************************************************)
(* Bounds of the model.                                                    *)
(***************************************************************************)
\* largest word set handed to a WordLadderPuzzle
MaxWordSet == 3
\* number of blank moves used to scramble the start grid of an MNPuzzle
MaxScramble == 3
\* largest number of pegs on an initial peg solitaire board
MaxPegs == 4

(***************************************************************************)
(* Generic helpers on sequences.                                           *)
(***************************************************************************)
Range(s) == {s[i] : i \in 1..Len(s)}

\* F applied to the value of e.  Operator arguments and LET definitions are
\* evaluated wherever they are used; With evaluates e once.
With(e, F(_)) == CHOOSE r \in {F(v) : v \in {e}} : TRUE

RECURSIVE FlattenSeq(_)
FlattenSeq(ss) == IF ss = <<>> THEN <<>> ELSE Head(ss) \o FlattenSeq(Tail(ss))

\* concatenation of a sequence of sequences
Flatten(ss) == With(ss, LAMBDA v : FlattenSeq(v))

Reverse(s) == [i \in 1..Len(s) |-> s[Len(s) + 1 - i]]

\* the characters str.strip() removes
Whitespace == {" ", "\n", "\t", "\r"}

\* t without its leading and trailing whitespace
StripSeq(t) ==
    LET keep == {i \in 1..Len(t) : t[i] \notin Whitespace}
    IN  IF keep = {} THEN <<>>
        ELSE SubSeq(t, CHOOSE i \in keep : \A j \in keep : i <= j,
                       CHOOSE i \in keep : \A j \in keep : j <= i)

\* str.strip() (the string is evaluated once, then stripped)
Strip(s) == With(s, LAMBDA t : StripSeq(t))

(***************************************************************************)
(* WordLadderPuzzle (word_ladder_puzzle.py).  A puzzle is the record       *)
(* [kind, from_word, to_word, word_set]; words are character sequences.    *)
(***************************************************************************)
\* self._chars.  Only letters occurring in some word of the word set can
\* make "word in ws" true, so the alphabet is cut to the letters the word
\* sets of this model use.
chars == <<"a", "b", "c">>

WordLadderPuzzle(from_word, to_word, ws) ==
    [kind |-> "WL", from_word |-> from_word, to_word |-> to_word, word_set |-> ws]

\* "{} -> {}".format(from_word, to_word)
WLStr(p) == p.from_word \o <<" ", "-", ">", " ">> \o p.to_word

\* from_word[:i] + letter + from_word[i+1:]
WLReplace(w, i, letter) == [k \in 1..Len(w) |-> IF k = i THEN letter ELSE w[k]]

\* all one-letter changes, positions outermost, letters in chars order
WLCandidates(w) ==
    [n \in 1..(Len(w) * Len(chars)) |->
        WLReplace(w, ((n - 1) \div Len(chars)) + 1, chars[((n - 1) % Len(chars)) + 1])]

WLKeep(p, word) == word \in p.word_set /\ word # p.from_word

WLExtensions(p) ==
    With(SelectSeq(WLCandidates(p.from_word), LAMBDA word : WLKeep(p, word)),
         LAMBDA kept :
            [n \in 1..Len(kept) |-> WordLadderPuzzle(kept[n], p.to_word, p.word_set)])

WLIsSolved(p) == p.from_word = p.to_word

(***************************************************************************)
(* MNPuzzle (mn_puzzle.py).  [kind, from_grid, to_grid]; a grid is a       *)
(* sequence of rows, a row a sequence of one-character symbols.            *)
(***************************************************************************)
MNPuzzle(from_grid, to_grid) ==
    [kind |-> "MN", from_grid |-> from_grid, to_grid |-> to_grid]

\* rows concatenated, each followed by "\n", then strip()
MNStr(p) ==
    Strip(Flatten([i \in 1..Len(p.from_grid) |-> p.from_grid[i] \o <<"\n">>]))

\* The blank search: the break leaves only the inner loop, so the last row
\* that holds a "*" wins, with its first "*"; (row, col) stays at the first
\* cell when there is no "*".
MNBlankRows(g) == {i \in 1..Len(g) : \E j \in 1..Len(g[i]) : g[i][j] = "*"}

MNMax(S) == CHOOSE x \in S : \A y \in S : y <= x

MNMin(S) == CHOOSE x \in S : \A y \in S : x <= y

MNBlankRow(g) == IF MNBlankRows(g) = {} THEN 1 ELSE MNMax(MNBlankRows(g))

MNBlankCol(g) ==
    IF MNBlankRows(g) = {} THEN 1
    ELSE MNMin({j \in 1..Len(g[MNBlankRow(g)]) : g[MNBlankRow(g)][j] = "*"})

\* variant: only lst_grid[row][col] is assigned, the neighbour keeps its
\* symbol
MNSwapOneWay(g, r1, c1, r2, c2) ==
    [i \in 1..Len(g) |-> [j \in 1..Len(g[i]) |->
        IF i = r2 /\ j = c2 THEN g[r1][c1] ELSE g[i][j]]]

\* swap the symbols at (r1, c1) and (r2, c2)
MNSwap(g, r1, c1, r2, c2) ==
    [i \in 1..Len(g) |-> [j \in 1..Len(g[i]) |->
        IF i = r1 /\ j = c1 THEN g[r2][c2]
        ELSE IF i = r2 /\ j = c2 THEN g[r1][c1]
        ELSE g[i][j]]]

\* variant: the four "if"s in the order left, up, right, down
MNMovesLURD(p, g, row, col) ==
    LET left  == IF col - 1 >= 1 THEN <<MNPuzzle(MNSwap(g, row, col - 1, row, col), p.to_grid)>> ELSE <<>>
        right == IF col + 1 <= Len(g[row]) THEN <<MNPuzzle(MNSwap(g, row, col + 1, row, col), p.to_grid)>> ELSE <<>>
        up    == IF row - 1 >= 1 THEN <<MNPuzzle(MNSwap(g, row - 1, col, row, col), p.to_grid)>> ELSE <<>>
        down  == IF row + 1 <= Len(g) THEN <<MNPuzzle(MNSwap(g, row + 1, col, row, col), p.to_grid)>> ELSE <<>>
    IN  left \o up \o right \o down

\* the moves of the blank at (row, col): left, right, up, down, each when
\* the neighbour is inside the grid
MNMoves(p, g, row, col) ==
    LET left  == IF col - 1 >= 1 THEN <<MNPuzzle(MNSwap(g, row, col - 1, row, col), p.to_grid)>> ELSE <<>>
        right == IF col + 1 <= Len(g[row]) THEN <<MNPuzzle(MNSwap(g, row, col + 1, row, col), p.to_grid)>> ELSE <<>>
        up    == IF row - 1 >= 1 THEN <<MNPuzzle(MNSwap(g, row - 1, col, row, col), p.to_grid)>> ELSE <<>>
        down  == IF row + 1 <= Len(g) THEN <<MNPuzzle(MNSwap(g, row + 1, col, row, col), p.to_grid)>> ELSE <<>>
    IN  left \o right \o up \o down

MNExtensions(p) ==
    With(<<MNBlankRow(p.from_grid), MNBlankCol(p.from_grid)>>,
         LAMBDA rc : MNMoves(p, p.from_grid, rc[1], rc[2]))

MNIsSolved(p) == p.from_grid = p.to_grid

(***************************************************************************)
(* GridPegSolitairePuzzle (grid_peg_solitaire_puzzle.py).                  *)
(* [kind, marker, marker_set]; "*" peg, "." empty, "#" unused.             *)
(***************************************************************************)
GridPegSolitairePuzzle(marker, marker_set) ==
    [kind |-> "GPS", marker |-> marker, marker_set |-> marker_set]

RECURSIVE GPSBoard(_, _, _)
\* the loop of __str__ from row i on: every symbol of the row is added with
\* a " " after it, then the whole board so far is stripped and ended by "\n"
GPSBoard(marker, i, board) ==
    IF i > Len(marker) THEN board
    ELSE GPSBoard(marker, i + 1,
            Strip(board \o Flatten([j \in 1..Len(marker[i]) |-> <<marker[i][j], " ">>]))
                \o <<"\n">>)

GPSStr(p) == Strip(GPSBoard(p.marker, 1, <<>>))

\* variant: marker[i-1][j] = "." is left out, the peg jumped over stays
GPSJumpKeepsPeg(orig, fi, fj, mi, mj, i, j) ==
    [a \in 1..Len(orig) |-> [b \in 1..Len(orig[a]) |->
        IF a = fi /\ b = fj THEN "."
        ELSE IF a = i /\ b = j THEN "*"
        ELSE orig[a][b]]]

\* the board after the peg at (fi, fj) jumps over (mi, mj) into (i, j)
GPSJump(orig, fi, fj, mi, mj, i, j) ==
    [a \in 1..Len(orig) |-> [b \in 1..Len(orig[a]) |->
        IF (a = fi /\ b = fj) \/ (a = mi /\ b = mj) THEN "."
        ELSE IF a = i /\ b = j THEN "*"
        ELSE orig[a][b]]]

\* The four jumps into an empty cell (i, j), in the order the source tries
\* them: 1 from above, 2 from below, 3 from the left, 4 from the right.
\* GPSFrom is the cell the peg leaves, GPSOver the cell it jumps over.
GPSFrom(i, j, dir) ==
    CASE dir = 1 -> <<i - 2, j>>
      [] dir = 2 -> <<i + 2, j>>
      [] dir = 3 -> <<i, j - 2>>
      [] dir = 4 -> <<i, j + 2>>

GPSOver(i, j, dir) ==
    CASE dir = 1 -> <<i - 1, j>>
      [] dir = 2 -> <<i + 1, j>>
      [] dir = 3 -> <<i, j - 1>>
      [] dir = 4 -> <<i, j + 1>>

\* orig[i][j] == "." and the bounds and peg tests of the jump
GPSLegal(orig, i, j, dir) ==
    /\ orig[i][j] = "."
    /\ GPSFrom(i, j, dir)[1] \in 1..Len(orig)
    /\ GPSFrom(i, j, dir)[2] \in 1..Len(orig[i])
    /\ orig[GPSFrom(i, j, dir)[1]][GPSFrom(i, j, dir)[2]] = "*"
    /\ orig[GPSOver(i, j, dir)[1]][GPSOver(i, j, dir)[2]] = "*"

\* <<i, j, dir>> in the order of the nested loops: rows outermost, columns
\* next, the four tests innermost (every row is as long as the first)
GPSMoves(orig) ==
    [n \in 1..(Len(orig) * Len(orig[1]) * 4) |->
        <<((n - 1) \div (4 * Len(orig[1]))) + 1,
          (((n - 1) \div 4) % Len(orig[1])) + 1,
          ((n - 1) % 4) + 1>>]

\* the puzzle appended for the legal move m
GPSMove(p, m) ==
    GridPegSolitairePuzzle(
        GPSJump(p.marker,
                GPSFrom(m[1], m[2], m[3])[1], GPSFrom(m[1], m[2], m[3])[2],
                GPSOver(m[1], m[2], m[3])[1], GPSOver(m[1], m[2], m[3])[2],
                m[1], m[2]),
        p.marker_set)

GPSExtensions(p) ==
    With(SelectSeq(GPSMoves(p.marker),
                   LAMBDA m : GPSLegal(p.marker, m[1], m[2], m[3])),
         LAMBDA ms : [k \in 1..Len(ms) |-> GPSMove(p, ms[k])])

\* number of "*" on the board
GPSCount(marker) ==
    Cardinality({c \in (1..Len(marker)) \X (1..Len(marker[1])) : marker[c[1]][c[2]] = "*"})

GPSIsSolved(p) == GPSCount(p.marker) = 1

(***************************************************************************)
(* The Puzzle interface the engines use, dispatched on the class.          *)
(***************************************************************************)
str(p) ==
    CASE p.kind = "WL"  -> WLStr(p)
      [] p.kind = "MN"  -> MNStr(p)
      [] p.kind = "GPS" -> GPSStr(p)

extensions(p) ==
    CASE p.kind = "WL"  -> WLExtensions(p)
      [] p.kind = "MN"  -> MNExtensions(p)
      [] p.kind = "GPS" -> GPSExtensions(p)

is_solved(p) ==
    CASE p.kind = "WL"  -> WLIsSolved(p)
      [] p.kind = "MN"  -> MNIsSolved(p)
      [] p.kind = "GPS" -> GPSIsSolved(p)

(***************************************************************************)
(* Initial puzzles.                                                        *)
(***************************************************************************)
\* the two-letter words over chars
Words == {<<a, b>> : a \in Range(chars), b \in Range(chars)}

FromWords == {<<"a", "a">>, <<"b", "a">>}

WordSets == {ws \in SUBSET Words : Cardinality(ws) <= MaxWordSet}

WLInits ==
    {WordLadderPuzzle(f, t, ws) : f \in FromWords, t \in Words, ws \in WordSets}

\* a 2x2 target and the same target with two tiles exchanged (a start grid
\* from which the target cannot be reached)
MNTarget22 == <<<<"1", "2">>, <<"3", "*">>>>

MNOdd22 == <<<<"2", "1">>, <<"3", "*">>>>

RECURSIVE MNScramble(_, _)
\* the puzzles reached from those of S by at most n moves of the blank
MNScramble(S, n) ==
    IF n = 0 THEN S
    ELSE MNScramble(S \cup UNION {Range(MNExtensions(p)) : p \in S}, n - 1)

MNInits ==
    MNScramble({MNPuzzle(MNTarget22, MNTarget22), MNPuzzle(MNOdd22, MNTarget22)},
               MaxScramble)

\* the 3x3 board with one unused corner
GPSCells == {c \in (1..3) \X (1..3) : c # <<1, 1>>}

GPSBoardOf(pegs) ==
    [i \in 1..3 |-> [j \in 1..3 |->
        IF <<i, j>> \notin GPSCells THEN "#"
        ELSE IF <<i, j>> \in pegs THEN "*" ELSE "."]]

GPSInits ==
    {GridPegSolitairePuzzle(GPSBoardOf(pegs), {"*", ".", "#"}) :
        pegs \in {P \in SUBSET GPSCells : Cardinality(P) <= MaxPegs}}

(***************************************************************************)
(* The engines (puzzle_tools.py).                                          *)
(*                                                                         *)
(* Two calls are modelled, r \in Runs; every variable is a function of the *)
(* call.  nodes[r] is the heap of PuzzleNode objects the call has created, *)
(* in creation order; a node reference is an index into it.                *)
(*                                                                         *)
(* In the actions a local of the source is bound with \E x \in {e}, which  *)
(* evaluates e once, like the assignment it stands for.                    *)
(***************************************************************************)
VARIABLES
    puzzle,     \* puzzle[r]: the argument of call r
    engine,     \* engine[r]: "dfs" for depth_first_solve, "bfs" for breadth_first_solve
    pc,         \* pc[r]: "start" (not yet called), "loop" (in the while loop), "done" (returned)
    nodes,      \* nodes[r]: the PuzzleNode objects of call r
    work,       \* work[r]: the deque (stack of depth_first_solve, que of breadth_first_search)
    visited,    \* visited[r]: the visited set
    result,     \* result[r]: the returned node, None before the return
    calls,      \* calls[r]: str() of the puzzles extensions() was called on, in call order
    recv,       \* the puzzle object a caller holds and calls extensions() on
    store,      \* the list objects (board rows); a reference is an index into it
    ext_lst,    \* the list the last extensions() call returned
    xpc         \* "idle" (no such caller), "ready" (before a call), "called" (after it)

vars == <<puzzle, engine, pc, nodes, work, visited, result, calls,
          recv, store, ext_lst, xpc>>

\* the state of the engine calls, and the state of a caller of extensions()
engvars == <<puzzle, engine, pc, nodes, work, visited, result, calls>>

extvars == <<recv, store, ext_lst, xpc>>

Runs == {1, 2}

None == 0

\* the references of the n nodes appended to a heap of length len
NewIds(len, n) == [k \in 1..n |-> len + k]

\* PuzzleNode.__init__ with children=None
PuzzleNode(p, parent) == [puzzle |-> p, parent |-> parent, children |-> <<>>]

\* variant: the extensions of the initial puzzle are marked visited when
\* they are pushed, although the loop marks and tests at the pop
DFSInitVisitedAtPush(p) == {str(p)} \cup {str(e) : e \in Range(extensions(p))}

\* variant: the visited set outlives the call (a module-level set, or a
\* mutable default argument)
DFSInitVisitedKept(p) == {str(p)} \cup UNION {visited[q] : q \in Runs}

\* variant: visited = set(), the initial puzzle is not marked
DFSInitVisitedEmpty(p) == {}

\* visited = {str(puzzle)}
DFSInitVisited(p) == {str(p)}

\* variant: visited is one set every call shares
BFSInitVisitedShared == UNION {visited[q] : q \in Runs}

\* visited = set()
BFSInitVisited == {}

\* variant: no test against the visited set
DFSNotVisitedNoTest(s, vis) == TRUE

\* str(current.puzzle) not in visited
DFSNotVisited(s, vis) == s \notin vis

\* str(ext) not in visited
BFSNotVisited(s, vis) == s \notin vis

\* variant: current = stack[0], the node stays in the stack
DFSPopLeftPeek(stack) == stack

\* what stack.popleft() leaves in the stack
DFSPopLeft(stack) == Tail(stack)

\* what que.popleft() leaves in the que
BFSPopLeft(que) == Tail(que)

\* variant: the seeding loop pushes PuzzleNode(p), without the parent
DFSSeedNodesNoParent(p) ==
    With(extensions(p), LAMBDA exts :
        [n \in 1..(2 * Len(exts)) |->
            IF n % 2 = 1 THEN PuzzleNode(p, None)
            ELSE PuzzleNode(exts[n \div 2], None)])

\* the seeding loop: one fresh root and one child per extension, the
\* children appended to the stack in the order of extensions()
DFSSeedNodes(p) ==
    With(extensions(p), LAMBDA exts :
        [n \in 1..(2 * Len(exts)) |->
            IF n % 2 = 1 THEN PuzzleNode(p, None)
            ELSE PuzzleNode(exts[n \div 2], n - 1)])

DFSSeedStack(p) == [k \in 1..Len(extensions(p)) |-> 2 * k]

\* the nodes one iteration of the while loop creates for the extensions of
\* the puzzle of current
DFSNewNodes(heap, current) ==
    With(extensions(heap[current].puzzle), LAMBDA exts :
        [k \in 1..Len(exts) |-> PuzzleNode(exts[k], current)])

\* variant: stack.append(...) in the loop, the new nodes go behind the
\* pending ones
DFSAppendRight(stack, ids) == stack \o ids

\* variant: the new nodes are put in front of the stack in the order of
\* extensions()
DFSAppendLeftInOrder(stack, ids) == ids \o stack

\* for p in current.puzzle.extensions(): stack.appendleft(PuzzleNode(p, parent=current))
\* ids are the new nodes in creation order; the last one ends up leftmost
DFSAppendLeft(stack, ids) == Reverse(ids) \o stack

\* variant: que.appendleft(pn), which makes the que a stack
BFSAppendAtLeft(que, ids) == Reverse(ids) \o que

\* que.append(pn) for every new node, in creation order
BFSAppend(que, ids) == que \o ids

RECURSIVE Ancestry(_, _)
\* the nodes the walk "node = node.parent" goes through, from node to the root
Ancestry(heap, node) ==
    IF heap[node].parent # None
    THEN <<node>> \o Ancestry(heap, heap[node].parent)
    ELSE <<node>>

\* the node of the walk whose parent is n (None when n is not a parent on it)
WalkChild(heap, walk, n) ==
    IF \E i \in 1..Len(walk) : heap[walk[i]].parent = n
    THEN CHOOSE c \in Range(walk) : heap[c].parent = n
    ELSE None

\* variant: "child = node" is left out of the loop, so every ancestor gets
\* the node the walk started from appended to its children
dfs_path_makerNoChild(heap, node) ==
    With(<<heap, Ancestry(heap, node)>>, LAMBDA hw :
        <<[n \in 1..Len(hw[1]) |->
            IF n \in Range(Tail(hw[2]))
            THEN [hw[1][n] EXCEPT !.children = Append(@, node)]
            ELSE hw[1][n]],
          hw[2][Len(hw[2])]>>)

\* while node.parent is not None: child = node; node = node.parent;
\* node.children.append(child).  Gives the heap after the walk and the root.
dfs_path_maker(heap, node) ==
    With(<<heap, Ancestry(heap, node)>>, LAMBDA hw :
        <<[n \in 1..Len(hw[1]) |->
            IF WalkChild(hw[1], hw[2], n) # None
            THEN [hw[1][n] EXCEPT !.children = Append(@, WalkChild(hw[1], hw[2], n))]
            ELSE hw[1][n]],
          hw[2][Len(hw[2])]>>)

\* while snode.parent: snode.parent.children = [snode]; snode = snode.parent
\* Gives the heap after the walk and the root.
BFSRewire(heap, snode) ==
    With(<<heap, Ancestry(heap, snode)>>, LAMBDA hw :
        <<[n \in 1..Len(hw[1]) |->
            IF WalkChild(hw[1], hw[2], n) # None
            THEN [hw[1][n] EXCEPT !.children = <<WalkChild(hw[1], hw[2], n)>>]
            ELSE hw[1][n]],
          hw[2][Len(hw[2])]>>)

\* variant: pn.parent = cwn.parent
BFSNewNodesSkipParent(heap, cwn, vis) ==
    With(SelectSeq(extensions(heap[cwn].puzzle),
                   LAMBDA ext : BFSNotVisited(str(ext), vis)),
         LAMBDA exts : [k \in 1..Len(exts) |->
            PuzzleNode(exts[k],
                       IF heap[cwn].parent # None THEN heap[cwn].parent ELSE cwn)])

\* the nodes breadth_first_search creates while it expands cwn
BFSNewNodes(heap, cwn, vis) ==
    With(SelectSeq(extensions(heap[cwn].puzzle),
                   LAMBDA ext : BFSNotVisited(str(ext), vis)),
         LAMBDA exts : [k \in 1..Len(exts) |-> PuzzleNode(exts[k], cwn)])

\* variant: the search also appends every new node to cwn.children
BFSExpandLinked(heap, cwn, vis) ==
    With(BFSNewNodes(heap, cwn, vis), LAMBDA new :
        [heap EXCEPT ![cwn].children = @ \o NewIds(Len(heap), Len(new))] \o new)

\* the heap after the for loop of breadth_first_search: the new nodes are
\* linked to cwn by their parent field only, cwn.children is left alone
BFSExpand(heap, cwn, vis) == heap \o BFSNewNodes(heap, cwn, vis)

\* variant: the solved test is made for enqueued children only, not for
\* the root
BFSFoundBelowRoot(heap, cwn) == is_solved(heap[cwn].puzzle) /\ heap[cwn].parent # None

\* if cwn.puzzle.is_solved()
BFSFound(heap, cwn) == is_solved(heap[cwn].puzzle)

(***************************************************************************)
(* depth_first_solve                                                       *)
(***************************************************************************)
\* lines 27-37: the solved check and the seeding of the stack
DFSStart(r) ==
    /\ pc[r] = "start"
    /\ engine[r] = "dfs"
    /\ IF is_solved(puzzle[r])
       THEN /\ nodes' = [nodes EXCEPT ![r] = <<PuzzleNode(puzzle[r], None)>>]
            /\ result' = [result EXCEPT ![r] = 1]
            /\ pc' = [pc EXCEPT ![r] = "done"]
            /\ UNCHANGED <<work, visited, calls>>
       ELSE /\ visited' = [visited EXCEPT ![r] = DFSInitVisited(puzzle[r])]
            /\ calls' = [calls EXCEPT ![r] = Append(@, str(puzzle[r]))]
            /\ nodes' = [nodes EXCEPT ![r] = DFSSeedNodes(puzzle[r])]
            /\ work' = [work EXCEPT ![r] = DFSSeedStack(puzzle[r])]
            /\ pc' = [pc EXCEPT ![r] = "loop"]
            /\ UNCHANGED result
    /\ UNCHANGED <<puzzle, engine>>

\* lines 41-49: one iteration of the while loop
DFSStep(r) ==
    /\ pc[r] = "loop"
    /\ engine[r] = "dfs"
    /\ work[r] # <<>>
    /\ \E current \in {Head(work[r])} :
       \E p \in {nodes[r][current].puzzle} :
       \E key \in {str(p)} :
        LET rest == DFSPopLeft(work[r])
            made == dfs_path_maker(nodes[r], current)
        IN IF DFSNotVisited(key, visited[r])
           THEN /\ visited' = [visited EXCEPT ![r] = @ \cup {key}]
                /\ IF is_solved(p)
                   THEN /\ nodes' = [nodes EXCEPT ![r] = made[1]]
                        /\ result' = [result EXCEPT ![r] = made[2]]
                        /\ pc' = [pc EXCEPT ![r] = "done"]
                        /\ work' = [work EXCEPT ![r] = rest]
                        /\ UNCHANGED calls
                   ELSE \E new \in {DFSNewNodes(nodes[r], current)} :
                        /\ calls' = [calls EXCEPT ![r] = Append(@, key)]
                        /\ nodes' = [nodes EXCEPT ![r] = @ \o new]
                        /\ work' = [work EXCEPT ![r] =
                                DFSAppendLeft(rest, NewIds(Len(nodes[r]), Len(new)))]
                        /\ UNCHANGED <<result, pc>>
           ELSE /\ work' = [work EXCEPT ![r] = rest]
                /\ UNCHANGED <<visited, nodes, result, pc, calls>>
    /\ UNCHANGED <<puzzle, engine>>

\* line 50: the stack is empty
DFSReturnNone(r) ==
    /\ pc[r] = "loop"
    /\ engine[r] = "dfs"
    /\ work[r] = <<>>
    /\ result' = [result EXCEPT ![r] = None]
    /\ pc' = [pc EXCEPT ![r] = "done"]
    /\ UNCHANGED <<puzzle, engine, nodes, work, visited, calls>>

(***************************************************************************)
(* breadth_first_solve / breadth_first_search                              *)
(***************************************************************************)
\* lines 78-79 and 94-96: the root node, the que and the visited set
BFSStart(r) ==
    /\ pc[r] = "start"
    /\ engine[r] = "bfs"
    /\ nodes' = [nodes EXCEPT ![r] = <<PuzzleNode(puzzle[r], None)>>]
    /\ work' = [work EXCEPT ![r] = <<1>>]
    /\ visited' = [visited EXCEPT ![r] = BFSInitVisited]
    /\ pc' = [pc EXCEPT ![r] = "loop"]
    /\ UNCHANGED <<puzzle, engine, result, calls>>

\* lines 98-113: one iteration of the while loop; the solved check comes
\* after the extensions of cwn were enqueued
BFSStep(r) ==
    /\ pc[r] = "loop"
    /\ engine[r] = "bfs"
    /\ work[r] # <<>>
    /\ \E cwn \in {Head(work[r])} :
       \E vis \in {visited[r] \cup {str(nodes[r][cwn].puzzle)}} :
       \E heap \in {BFSExpand(nodes[r], cwn, vis)} :
        LET que   == BFSAppend(BFSPopLeft(work[r]),
                              NewIds(Len(nodes[r]), Len(heap) - Len(nodes[r])))
            wired == BFSRewire(heap, cwn)
        IN /\ visited' = [visited EXCEPT ![r] = vis]
           /\ calls' = [calls EXCEPT ![r] = Append(@, str(nodes[r][cwn].puzzle))]
           /\ work' = [work EXCEPT ![r] = que]
           /\ IF BFSFound(heap, cwn)
              THEN /\ nodes' = [nodes EXCEPT ![r] = wired[1]]
                   /\ result' = [result EXCEPT ![r] = wired[2]]
                   /\ pc' = [pc EXCEPT ![r] = "done"]
              ELSE /\ nodes' = [nodes EXCEPT ![r] = heap]
                   /\ UNCHANGED <<result, pc>>
    /\ UNCHANGED <<puzzle, engine>>

\* variant: the que is a blocking queue, and taking from it when it is
\* empty waits for ever instead of ending the loop
BFSReturnNoneBlocked(r) ==
    /\ pc[r] = "loop"
    /\ engine[r] = "bfs"
    /\ work[r] = <<>>
    /\ UNCHANGED vars

\* the while loop ends: breadth_first_search returns None, and so does
\* breadth_first_solve (lines 80-83)
BFSReturnNone(r) ==
    /\ pc[r] = "loop"
    /\ engine[r] = "bfs"
    /\ work[r] = <<>>
    /\ result' = [result EXCEPT ![r] = None]
    /\ pc' = [pc EXCEPT ![r] = "done"]
    /\ UNCHANGED <<puzzle, engine, nodes, work, visited, calls>>

(***************************************************************************)
(* A caller of extensions().                                               *)
(*                                                                         *)
(* The caller holds a puzzle object, recv, calls extensions() on it and    *)
(* may go on with one of the returned puzzles.  The words of a word        *)
(* ladder are strings and the grids of an MNPuzzle are tuples of tuples,   *)
(* which nothing can change, so such a puzzle is held as its value.  The   *)
(* board of a GridPegSolitairePuzzle is a list of lists: its rows are      *)
(* objects in store, and the marker field of the object is the sequence of *)
(* the references of its rows.                                             *)
(***************************************************************************)
\* the rows the references of a board stand for
GPSDeref(st, marker) == [a \in 1..Len(marker) |-> st[marker[a]]]

\* the puzzle an object stands for
Value(st, obj) ==
    IF obj.kind = "GPS"
    THEN GridPegSolitairePuzzle(GPSDeref(st, obj.marker), obj.marker_set)
    ELSE obj

\* variant: marker = list(orig), a new outer list of the same row objects
GPSCopyShared(st, orig) == <<st, orig>>

\* marker = [list(lst) for lst in orig]: <<store with the new rows, marker>>
GPSCopy(st, orig) == <<st \o GPSDeref(st, orig), NewIds(Len(st), Len(orig))>>

\* marker[i][j] = c
GPSSetItem(st, marker, i, j, c) == [st EXCEPT ![marker[i]][j] = c]

\* the bounds and peg tests of the "if" of jump dir into (i, j)
GPSCanJump(orig, i, j, dir) ==
    /\ GPSFrom(i, j, dir)[1] \in 1..Len(orig)
    /\ GPSFrom(i, j, dir)[2] \in 1..Len(orig[i])
    /\ orig[GPSFrom(i, j, dir)[1]][GPSFrom(i, j, dir)[2]] = "*"
    /\ orig[GPSOver(i, j, dir)[1]][GPSOver(i, j, dir)[2]] = "*"

\* the body of that "if": the copy and the three assignments; gives the
\* store and the marker of the new puzzle
GPSJumpBody(st, orig, i, j, dir) ==
    With(GPSCopy(st, orig), LAMBDA sm :
        <<GPSSetItem(
            GPSSetItem(
              GPSSetItem(sm[1], sm[2],
                         GPSFrom(i, j, dir)[1], GPSFrom(i, j, dir)[2], "."),
              sm[2], GPSOver(i, j, dir)[1], GPSOver(i, j, dir)[2], "."),
            sm[2], i, j, "*"),
          sm[2]>>)

RECURSIVE GPSExtLoop(_, _, _, _, _)
\* The nested loops of extensions() from test n on, the tests numbered as
\* in GPSMoves.  open: whether orig[i][j] == "." held when the tests of the
\* cell were entered.  Gives the store and ext_lst.
GPSExtLoop(st, self, n, open, lst) ==
    LET orig == GPSDeref(st, self.marker)
    IN  IF n > Len(orig) * Len(orig[1]) * 4 THEN <<st, lst>>
        ELSE LET m      == GPSMoves(orig)[n]
                 isopen == IF m[3] = 1 THEN orig[m[1]][m[2]] = "." ELSE open
                 made   == GPSJumpBody(st, self.marker, m[1], m[2], m[3])
             IN  IF isopen /\ GPSCanJump(orig, m[1], m[2], m[3])
                 THEN GPSExtLoop(made[1], self, n + 1, isopen,
                        Append(lst, GridPegSolitairePuzzle(made[2], self.marker_set)))
                 ELSE GPSExtLoop(st, self, n + 1, isopen, lst)

\* self.extensions() on an object: the store after the call and the
\* returned list of objects
ExtensionsOf(st, self) ==
    IF self.kind = "GPS" THEN GPSExtLoop(st, self, 1, FALSE, <<>>)
    ELSE <<st, extensions(self)>>

\* ext_lst = recv.extensions()
ExtCall ==
    /\ xpc = "ready"
    /\ \E r \in {ExtensionsOf(store, recv)} :
        /\ store' = r[1]
        /\ ext_lst' = r[2]
    /\ xpc' = "called"
    /\ UNCHANGED recv

\* the caller goes on with one of the returned puzzles
ExtPick ==
    /\ xpc = "called"
    /\ \E k \in 1..Len(ext_lst) : recv' = ext_lst[k]
    /\ ext_lst' = <<>>
    /\ xpc' = "ready"
    /\ UNCHANGED store

(***************************************************************************)
(* The two engines as functions of their argument: what a call returns     *)
(* when nothing else runs, <<heap, returned node>>.                        *)
(***************************************************************************)
RECURSIVE DFSLoop(_, _, _)
\* lines 41-50: the while loop from the given stack and visited set on
DFSLoop(heap, stack, vis) ==
    IF stack = <<>> THEN <<heap, None>>
    ELSE LET current == Head(stack)
             p       == heap[current].puzzle
             key     == str(p)
             rest    == DFSPopLeft(stack)
             new     == DFSNewNodes(heap, current)
         IN  IF DFSNotVisited(key, vis)
             THEN IF is_solved(p)
                  THEN dfs_path_maker(heap, current)
                  ELSE DFSLoop(heap \o new,
                               DFSAppendLeft(rest, NewIds(Len(heap), Len(new))),
                               vis \cup {key})
             ELSE DFSLoop(heap, rest, vis)

depth_first_solve(p) ==
    IF is_solved(p) THEN <<<<PuzzleNode(p, None)>>, 1>>
    ELSE DFSLoop(DFSSeedNodes(p), DFSSeedStack(p), DFSInitVisited(p))

RECURSIVE BFSLoop(_, _, _)
\* lines 98-113: the while loop from the given que and visited set on
BFSLoop(heap, que, vis0) ==
    IF que = <<>> THEN <<heap, None>>
    ELSE LET cwn  == Head(que)
             vis  == vis0 \cup {str(heap[cwn].puzzle)}
             grew == BFSExpand(heap, cwn, vis)
         IN  IF BFSFound(grew, cwn)
             THEN BFSRewire(grew, cwn)
             ELSE BFSLoop(grew,
                          BFSAppend(BFSPopLeft(que),
                                    NewIds(Len(heap), Len(grew) - Len(heap))),
                          vis)

breadth_first_solve(p) == BFSLoop(<<PuzzleNode(p, None)>>, <<1>>, BFSInitVisited)

(***************************************************************************)
(* Specification: a caller makes call 1 and, once it has returned, call 2  *)
(* on an equal puzzle; each call is to either engine.                      *)
(***************************************************************************)
Engines == {"dfs", "bfs"}

\* nothing calls extensions() but the engines
ExtIdle ==
    /\ recv = None
    /\ store = <<>>
    /\ ext_lst = <<>>
    /\ xpc = "idle"

InitWith(p) ==
    /\ puzzle = [r \in Runs |-> p]
    /\ engine \in [Runs -> Engines]
    /\ pc = [r \in Runs |-> "start"]
    /\ nodes = [r \in Runs |-> <<>>]
    /\ work = [r \in Runs |-> <<>>]
    /\ visited = [r \in Runs |-> {}]
    /\ result = [r \in Runs |-> None]
    /\ calls = [r \in Runs |-> <<>>]
    /\ ExtIdle

Init ==
    \/ \E p \in WLInits : InitWith(p)
    \/ \E p \in MNInits : InitWith(p)
    \/ \E p \in GPSInits : InitWith(p)

\* the caller is sequential: call 2 runs after call 1 has returned
Turn(r) == r = 1 \/ pc[1] = "done"

Next ==
    \E r \in Runs :
        /\ Turn(r)
        /\ \/ DFSStart(r)
           \/ DFSStep(r)
           \/ DFSReturnNone(r)
           \/ BFSStart(r)
           \/ BFSStep(r)
           \/ BFSReturnNone(r)
        /\ UNCHANGED extvars

Spec == Init /\ [][Next]_vars

\* every call that can take a step eventually takes one
LiveSpec == Spec /\ WF_vars(Next)

(***************************************************************************)
(* Specification: two calls, each to either engine and each on a puzzle of *)
(* its own, are made by two threads; their steps interleave in any order.  *)
(***************************************************************************)
\* the puzzles the two threads choose from
ConcPuzzles ==
    << WordLadderPuzzle(<<"a", "a">>, <<"b", "b">>,
                        {<<"a", "b">>, <<"b", "a">>, <<"b", "b">>}),
       WordLadderPuzzle(<<"b", "a">>, <<"a", "c">>, {<<"a", "a">>, <<"b", "b">>}),
       MNPuzzle(<<<<"*", "1">>, <<"3", "2">>>>, MNTarget22),
       MNPuzzle(MNOdd22, MNTarget22),
       GridPegSolitairePuzzle(GPSBoardOf({<<1, 2>>, <<2, 2>>, <<3, 3>>}),
                              {"*", ".", "#"}) >>

ConcInit ==
    /\ \E i \in 1..Len(ConcPuzzles), j \in 1..Len(ConcPuzzles) :
        puzzle = [r \in Runs |-> IF r = 1 THEN ConcPuzzles[i] ELSE ConcPuzzles[j]]
    /\ engine \in [Runs -> Engines]
    /\ pc = [r \in Runs |-> "start"]
    /\ nodes = [r \in Runs |-> <<>>]
    /\ work = [r \in Runs |-> <<>>]
    /\ visited = [r \in Runs |-> {}]
    /\ result = [r \in Runs |-> None]
    /\ calls = [r \in Runs |-> <<>>]
    /\ ExtIdle

ConcNext ==
    \E r \in Runs :
        /\ \/ DFSStart(r)
           \/ DFSStep(r)
           \/ DFSReturnNone(r)
           \/ BFSStart(r)
           \/ BFSStep(r)
           \/ BFSReturnNone(r)
        /\ UNCHANGED extvars

ConcSpec == ConcInit /\ [][ConcNext]_vars

(***************************************************************************)
(* Specification: a caller of extensions() on a puzzle of any of the three *)
(* classes; no engine runs.                                                *)
(***************************************************************************)
\* the 2x3 target and the two start grids of the doctests of
\* MNPuzzle.extensions
MNTarget23 == <<<<"1", "2", "3">>, <<"4", "5", "*">>>>

MNStart23 ==
    {<<<<"*", "4", "5">>, <<"1", "3", "2">>>>,
     <<<<"1", "*", "4">>, <<"3", "2", "5">>>>}

\* a 3x3 grid, where the blank can have four neighbours; seven tiles carry
\* the same symbol
MNStart33 == <<<<"1", "1", "1">>, <<"1", "*", "2">>, <<"1", "1", "1">>>>

MNExtInits ==
    MNInits \cup {MNPuzzle(g, MNTarget23) : g \in MNStart23}
            \cup {MNPuzzle(MNStart33, MNStart33)}

\* no engine call is made
EngIdle ==
    /\ puzzle = [r \in Runs |-> None]
    /\ engine = [r \in Runs |-> "dfs"]
    /\ pc = [r \in Runs |-> "done"]
    /\ nodes = [r \in Runs |-> <<>>]
    /\ work = [r \in Runs |-> <<>>]
    /\ visited = [r \in Runs |-> {}]
    /\ result = [r \in Runs |-> None]
    /\ calls = [r \in Runs |-> <<>>]

ExtInitWith(obj, st) ==
    /\ recv = obj
    /\ store = st
    /\ ext_lst = <<>>
    /\ xpc = "ready"
    /\ EngIdle

\* a board is made of one list object per row
ExtInit ==
    \/ \E p \in WLInits : ExtInitWith(p, <<>>)
    \/ \E p \in MNExtInits : ExtInitWith(p, <<>>)
    \/ \E p \in GPSInits :
        ExtInitWith(GridPegSolitairePuzzle(NewIds(0, Len(p.marker)), p.marker_set),
                    p.marker)

ExtNext == (ExtCall \/ ExtPick) /\ UNCHANGED engvars

ExtSpec == ExtInit /\ [][ExtNext]_vars

TypeOK ==
    /\ pc \in [Runs -> {"start", "loop", "done"}]
    /\ engine \in [Runs -> Engines]
    /\ \A r \in Runs :
        /\ result[r] \in 0..Len(nodes[r])
        /\ \A i \in 1..Len(work[r]) : work[r][i] \in 1..Len(nodes[r])
        /\ \A n \in 1..Len(nodes[r]) : nodes[r][n].parent \in 0..(n - 1)

(***************************************************************************)
(* Definitions the properties are stated with.                             *)
(***************************************************************************)
RECURSIVE Chain(_, _)
\* the nodes met from node n by following the first child
Chain(heap, n) ==
    <<n>> \o (IF heap[n].children = <<>> THEN <<>> ELSE Chain(heap, heap[n].children[1]))

\* the states of the path call r returned (empty for None)
PathStates(r) ==
    IF result[r] = None THEN <<>>
    ELSE LET c == Chain(nodes[r], result[r])
         IN  [i \in 1..Len(c) |-> nodes[r][c[i]].puzzle]

Returned(r) == pc[r] = "done"

Edges(r) == Len(PathStates(r)) - 1

Successors(S) == UNION {Range(extensions(s)) : s \in S}

RECURSIVE MinDistFrom(_, _, _)
\* the least number of extension steps from the initial state to a solved
\* state, -1 if there is none; computed layer by layer on sets of states
MinDistFrom(frontier, seen, d) ==
    IF \E s \in frontier : is_solved(s) THEN d
    ELSE IF frontier = {} THEN 0 - 1
    ELSE MinDistFrom(Successors(frontier) \ seen, seen \cup Successors(frontier), d + 1)

MinDist(p) == MinDistFrom({p}, {p}, 0)

SolvedReachable(p) == MinDist(p) >= 0

NoDuplicates(s) == \A i, j \in 1..Len(s) : i # j => s[i] # s[j]

(***************************************************************************)
(* C1: whenever either engine returns a node, the chain of states under    *)
(* the returned root starts with the initial state, ends in a solved state *)
(* and every state after the first is an extension of the one before it.   *)
(***************************************************************************)
C1_PathIsValid ==
    \A r \in Runs :
        (Returned(r) /\ result[r] # None) =>
            LET P == PathStates(r)
            IN  /\ P[1] = puzzle[r]
                /\ is_solved(P[Len(P)])
                /\ \A i \in 1..(Len(P) - 1) : P[i + 1] \in Range(extensions(P[i]))

\* both engines have returned a path of at least two moves
C1_Witness ==
    /\ Returned(1) /\ Returned(2)
    /\ engine[1] = "dfs" /\ engine[2] = "bfs"
    /\ Edges(1) >= 2 /\ Edges(2) >= 2

(***************************************************************************)
(* C2: when a solved state is reachable, the path breadth_first_solve      *)
(* returns has the least number of edges of all extension paths to a       *)
(* solved state, hence no more edges than the path depth_first_solve       *)
(* returns for the same initial state.                                     *)
(***************************************************************************)
C2_BFSShortest ==
    \A r \in Runs :
        (Returned(r) /\ engine[r] = "bfs" /\ SolvedReachable(puzzle[r])) =>
            /\ result[r] # None
            /\ Edges(r) = MinDist(puzzle[r])
            /\ \A q \in Runs :
                (Returned(q) /\ engine[q] = "dfs" /\ result[q] # None)
                    => Edges(r) <= Edges(q)

\* the breadth-first path is strictly shorter than the depth-first one
C2_Witness ==
    /\ Returned(1) /\ Returned(2)
    /\ engine[1] = "bfs" /\ engine[2] = "dfs"
    /\ result[1] # None /\ result[2] # None
    /\ Edges(1) >= 1
    /\ Edges(1) < Edges(2)

(***************************************************************************)
(* C3: on a finite state space each engine returns None exactly when no    *)
(* solved state is reachable from the initial state (so an unsolved state  *)
(* without extensions gives None).                                         *)
(***************************************************************************)
C3_NoneIffUnsolvable ==
    \A r \in Runs :
        Returned(r) => (result[r] = None <=> ~SolvedReachable(puzzle[r]))

\* both engines returned None after a search of several states
C3_Witness ==
    /\ Returned(1) /\ Returned(2)
    /\ engine[1] = "dfs" /\ engine[2] = "bfs"
    /\ result[1] = None /\ result[2] = None
    /\ Len(calls[1]) >= 3 /\ Len(calls[2]) >= 3

(***************************************************************************)
(* C4: for a solved initial state both engines return one node that wraps  *)
(* the initial state, has no parent and has no children.                   *)
(***************************************************************************)
C4_SolvedAtStart ==
    \A r \in Runs :
        (Returned(r) /\ is_solved(puzzle[r])) =>
            /\ result[r] # None
            /\ nodes[r][result[r]].puzzle = puzzle[r]
            /\ nodes[r][result[r]].parent = None
            /\ nodes[r][result[r]].children = <<>>

\* both engines returned for a solved initial state that has extensions
C4_Witness ==
    /\ Returned(1) /\ Returned(2)
    /\ engine[1] = "dfs" /\ engine[2] = "bfs"
    /\ is_solved(puzzle[1])
    /\ extensions(puzzle[1]) # <<>>

(***************************************************************************)
(* C5 as stated: for a solved initial state both engines return the        *)
(* 1-state path and extensions() is never called during the run.           *)
(***************************************************************************)
C5_NoExtensionsCall ==
    \A r \in Runs :
        (Returned(r) /\ is_solved(puzzle[r])) =>
            /\ PathStates(r) = <<puzzle[r]>>
            /\ calls[r] = <<>>

(***************************************************************************)
(* C5 amended: for a solved initial state both engines return the 1-state  *)
(* path; depth_first_solve never calls extensions(), breadth_first_solve   *)
(* calls it exactly once, on the initial state.                            *)
(***************************************************************************)
C5_ExtensionsCallsWhenSolved ==
    \A r \in Runs :
        (Returned(r) /\ is_solved(puzzle[r])) =>
            /\ PathStates(r) = <<puzzle[r]>>
            /\ engine[r] = "dfs" => calls[r] = <<>>
            /\ engine[r] = "bfs" => calls[r] = <<str(puzzle[r])>>

\* both engines returned for a solved initial state
C5_Witness ==
    /\ Returned(1) /\ Returned(2)
    /\ engine[1] = "bfs" /\ engine[2] = "dfs"
    /\ is_solved(puzzle[1])
    /\ Len(nodes[1]) > 1

(***************************************************************************)
(* C6: depth_first_solve terminates on every finite state space, cycles    *)
(* included: a call to it that the caller has reached returns.             *)
(***************************************************************************)
C6_DFSTerminates ==
    \A r \in Runs : (engine[r] = "dfs" /\ Turn(r)) ~> Returned(r)

\* depth_first_solve has exhausted the cyclic state space of a sliding puzzle
C6_Witness ==
    /\ engine[1] = "dfs" /\ Returned(1)
    /\ puzzle[1].kind = "MN"
    /\ result[1] = None
    /\ Len(calls[1]) >= 4

(***************************************************************************)
(* C7: breadth_first_solve terminates on every finite state space, also    *)
(* with cycles and without a reachable solved state.                       *)
(***************************************************************************)
C7_BFSTerminates ==
    \A r \in Runs : (engine[r] = "bfs" /\ Turn(r)) ~> Returned(r)

\* breadth_first_solve has exhausted the cyclic state space of a sliding puzzle
C7_Witness ==
    /\ engine[1] = "bfs" /\ Returned(1)
    /\ puzzle[1].kind = "MN"
    /\ result[1] = None
    /\ Len(calls[1]) >= 4

(***************************************************************************)
(* C8: in one run of depth_first_solve no canonical string occurs twice    *)
(* among the states extensions() was called on (the initial state counts   *)
(* from the seeding).                                                      *)
(***************************************************************************)
C8_DFSExpandsOnce ==
    \A r \in Runs : engine[r] = "dfs" => NoDuplicates(calls[r])

\* a finished depth-first run in which a state was popped a second time and
\* skipped: two non-root nodes hold the same state and the stack is empty
C8_Witness ==
    /\ engine[1] = "dfs" /\ Returned(1)
    /\ work[1] = <<>>
    /\ Len(calls[1]) >= 3
    /\ \E m, n \in 1..Len(nodes[1]) :
        /\ m # n
        /\ nodes[1][m].parent # None /\ nodes[1][n].parent # None
        /\ nodes[1][m].puzzle = nodes[1][n].puzzle

(***************************************************************************)
(* C9: in one run of breadth_first_solve no canonical string occurs twice  *)
(* among the states extensions() was called on.                            *)
(***************************************************************************)
C9_BFSExpandsOnce ==
    \A r \in Runs : engine[r] = "bfs" => NoDuplicates(calls[r])

(***************************************************************************)
(* C10: two runs of the same engine on equal initial states return paths   *)
(* with the same states in the same order, or both return None.            *)
(***************************************************************************)
C10_Deterministic ==
    (Returned(1) /\ Returned(2) /\ engine[1] = engine[2] /\ puzzle[1] = puzzle[2]) =>
        /\ (result[1] = None) <=> (result[2] = None)
        /\ PathStates(1) = PathStates(2)

\* the same engine was run twice and returned a path of at least two moves
C10_Witness ==
    /\ Returned(1) /\ Returned(2)
    /\ engine[1] = engine[2]
    /\ puzzle[1] = puzzle[2]
    /\ Edges(1) >= 2

(***************************************************************************)
(* C11: the structure a call returns is a simple chain: the root has no    *)
(* parent, every node of the chain but the solved leaf has exactly one     *)
(* entry in children, the solved leaf has none, and the parent of each     *)
(* child is the node that lists it.                                        *)
(***************************************************************************)
C11_SimpleChain ==
    \A r \in Runs : (Returned(r) /\ result[r] # None) =>
        LET heap == nodes[r]
            c    == Chain(heap, result[r])
        IN  /\ heap[result[r]].parent = None
            /\ \A i \in 1..(Len(c) - 1) :
                /\ heap[c[i]].children = <<c[i + 1]>>
                /\ heap[c[i + 1]].parent = c[i]
            /\ heap[c[Len(c)]].children = <<>>
            /\ is_solved(heap[c[Len(c)]].puzzle)

\* both engines have returned a chain of at least three nodes
C11_Witness ==
    /\ Returned(1) /\ Returned(2)
    /\ engine[1] = "dfs" /\ engine[2] = "bfs"
    /\ Edges(1) >= 2 /\ Edges(2) >= 2

(***************************************************************************)
(* C12: two engine calls whose steps interleave in any order do not        *)
(* interfere: each returns exactly what the same engine returns for the    *)
(* same puzzle when it runs alone.                                         *)
(***************************************************************************)
C12_NoInterference ==
    \A r \in Runs : Returned(r) =>
        <<nodes[r], result[r]>> =
            (IF engine[r] = "dfs" THEN depth_first_solve(puzzle[r])
                                  ELSE breadth_first_solve(puzzle[r]))

\* call 2 has returned a path while call 1 is in the middle of its loop,
\* and the two calls run different engines
C12_Witness ==
    /\ Returned(2) /\ result[2] # None
    /\ pc[1] = "loop" /\ Len(calls[1]) >= 2
    /\ engine[1] # engine[2]

(***************************************************************************)
(* C13: for each of the three classes, extensions() leaves the puzzle it   *)
(* is called on unchanged: its word or grid, its target and its str() are  *)
(* the same after the call as before, however the returned puzzles were    *)
(* built, and no returned board shares a row with the board of the         *)
(* receiver.                                                               *)
(***************************************************************************)
C13_ExtensionsFrame ==
    [][(xpc = "ready" /\ xpc' = "called") =>
        /\ recv' = recv
        /\ Value(store', recv) = Value(store, recv)
        /\ str(Value(store', recv)) = str(Value(store, recv))
        /\ recv.kind = "GPS" =>
            \A k \in 1..Len(ext_lst') :
                Range(ext_lst'[k].marker) \cap Range(recv.marker) = {}]_vars

\* extensions() of a peg board has returned at least two boards
C13_Witness ==
    /\ xpc = "called"
    /\ recv.kind = "GPS"
    /\ Len(ext_lst) >= 2

(***************************************************************************)
(* C14: for a peg board that is not solved and has exactly one legal jump, *)
(* which leaves a single peg, depth_first_solve returns a path of exactly  *)
(* two states: the board, then the single-peg board.                       *)
(***************************************************************************)
C14_OneJumpPath ==
    \A r \in Runs :
        (/\ Returned(r)
         /\ engine[r] = "dfs"
         /\ puzzle[r].kind = "GPS"
         /\ ~is_solved(puzzle[r])
         /\ Len(extensions(puzzle[r])) = 1
         /\ is_solved(extensions(puzzle[r])[1]))
        => PathStates(r) = <<puzzle[r], extensions(puzzle[r])[1]>>

\* depth_first_solve has returned for such a board
C14_Witness ==
    /\ Returned(1)
    /\ engine[1] = "dfs"
    /\ puzzle[1].kind = "GPS"
    /\ GPSCount(puzzle[1].marker) = 2
    /\ Len(extensions(puzzle[1])) = 1
    /\ Edges(1) = 1

(***************************************************************************)
(* C15: in one run of breadth_first_solve each state is enqueued at most   *)
(* once: no two of the nodes the que has received (the root and every node *)
(* the loop created) hold states with the same canonical string.           *)
(***************************************************************************)
C15_BFSEnqueuesOnce ==
    \A r \in Runs : engine[r] = "bfs" =>
        NoDuplicates([n \in 1..Len(nodes[r]) |-> str(nodes[r][n].puzzle)])

\* call r is in the loop of depth_first_solve and this step pops a node
DFSPops(r) ==
    /\ engine[r] = "dfs"
    /\ pc[r] = "loop"
    /\ work[r] # <<>>
    /\ work'[r] # work[r]

\* the number of nodes this step of call r creates
Created(r) == Len(nodes'[r]) - Len(nodes[r])

\* the puzzles of the first k nodes of the stack of call r after this step
Front(r, k) == [i \in 1..k |-> nodes'[r][work'[r][i]].puzzle]

(***************************************************************************)
(* C16: in depth_first_solve the stack is last-in-first-out: a step pops   *)
(* the leftmost node and leaves every node its expansion pushes in front   *)
(* of all the nodes that were pending, which stay in their order; so the   *)
(* successors of an expanded node are popped before any node that was      *)
(* pending when it was expanded.                                           *)
(***************************************************************************)
C16_LIFO ==
    [][\A r \in Runs : DFSPops(r) =>
        LET pending == Tail(work[r])
            k       == Len(work'[r]) - Len(pending)
        IN  /\ k = Created(r)
            /\ SubSeq(work'[r], k + 1, Len(work'[r])) = pending
            /\ \A i \in 1..k :
                /\ work'[r][i] > Len(nodes[r])
                /\ nodes'[r][work'[r][i]].parent = Head(work[r])]_vars

\* the stack of depth_first_solve holds successors of an expanded node in
\* front of a node that was pending when they were pushed
C16_Witness ==
    /\ engine[1] = "dfs"
    /\ pc[1] = "loop"
    /\ Len(work[1]) >= 2
    /\ \E i \in 2..Len(work[1]) :
        /\ work[1][1] > work[1][i]
        /\ nodes[1][work[1][1]].parent # nodes[1][work[1][i]].parent
        /\ nodes[1][nodes[1][work[1][1]].parent].parent # None

(***************************************************************************)
(* C17 as stated: in depth_first_solve the siblings created by one         *)
(* expansion, of the initial state or of a popped node, are popped in the  *)
(* order extensions() returned them.                                       *)
(***************************************************************************)
C17_SiblingsInOrder ==
    [][\A r \in Runs :
        /\ (engine[r] = "dfs" /\ pc[r] = "start" /\ pc'[r] = "loop") =>
            Front(r, Len(work'[r])) = extensions(puzzle[r])
        /\ (DFSPops(r) /\ Created(r) > 0) =>
            Front(r, Created(r)) = extensions(nodes[r][Head(work[r])].puzzle)]_vars

(***************************************************************************)
(* C17 amended: the siblings the seeding loop creates for the initial      *)
(* state are popped in the order extensions() returned them; the siblings  *)
(* created by the expansion of a popped node are popped in the reverse of  *)
(* that order, the one extensions() returned last first.                   *)
(***************************************************************************)
C17_SeedsInOrderLoopReversed ==
    [][\A r \in Runs :
        /\ (engine[r] = "dfs" /\ pc[r] = "start" /\ pc'[r] = "loop") =>
            Front(r, Len(work'[r])) = extensions(puzzle[r])
        /\ (DFSPops(r) /\ Created(r) > 0) =>
            Front(r, Created(r)) =
                Reverse(extensions(nodes[r][Head(work[r])].puzzle))]_vars

\* the two leftmost nodes of the stack of depth_first_solve are siblings
\* created by the expansion of a popped node, the later created one first
C17_Witness ==
    /\ engine[1] = "dfs"
    /\ pc[1] = "loop"
    /\ Len(work[1]) >= 2
    /\ work[1][1] > work[1][2]
    /\ nodes[1][work[1][1]].parent = nodes[1][work[1][2]].parent
    /\ nodes[1][nodes[1][work[1][1]].parent].parent # None
    /\ nodes[1][work[1][1]].puzzle # nodes[1][work[1][2]].puzzle

\* the number of edges of the route from the root to node n
Depth(heap, n) == Len(Ancestry(heap, n)) - 1

\* some node of heap outside the deque rest (one that was taken from the
\* deque before, or a root) holds a state with canonical string key at the
\* end of a route of at most d edges
ReachedWithin(heap, rest, key, d) ==
    \E n \in 1..Len(heap) :
        /\ n \notin Range(rest)
        /\ str(heap[n].puzzle) = key
        /\ Depth(heap, n) <= d

\* depth_first_solve is about to pop a node whose state is visited, which
\* it skips
DFSSkips(r) ==
    /\ engine[r] = "dfs"
    /\ pc[r] = "loop"
    /\ work[r] # <<>>
    /\ str(nodes[r][Head(work[r])].puzzle) \in visited[r]

\* breadth_first_search is about to dequeue a node
BFSDequeues(r) ==
    /\ engine[r] = "bfs"
    /\ pc[r] = "loop"
    /\ work[r] # <<>>

\* the canonical strings of the extensions breadth_first_search skips when
\* it expands the head of the que
BFSSkipped(r) ==
    {str(ext) : ext \in Range(extensions(nodes[r][Head(work[r])].puzzle))}
        \cap (visited[r] \cup {str(nodes[r][Head(work[r])].puzzle)})

\* every extension the next step of breadth_first_search skips was reached
\* before by a route with at most as many edges as the skipped route
BFSSkipsLonger(r) ==
    BFSDequeues(r) =>
        \A key \in BFSSkipped(r) :
            ReachedWithin(nodes[r], Tail(work[r]), key,
                          Depth(nodes[r], Head(work[r])) + 1)

(***************************************************************************)
(* C18 as stated: in either engine, a state that is skipped because its    *)
(* canonical string is in visited was reached before by a route from the   *)
(* initial state with at most as many edges as the route it is skipped on. *)
(***************************************************************************)
C18_SkippedRouteNotShorter ==
    \A r \in Runs :
        /\ DFSSkips(r) =>
            ReachedWithin(nodes[r], work[r], str(nodes[r][Head(work[r])].puzzle),
                          Depth(nodes[r], Head(work[r])))
        /\ BFSSkipsLonger(r)

(***************************************************************************)
(* C18 amended: in breadth_first_solve a skipped state was reached before  *)
(* by a route with at most as many edges as the route it is skipped on; in *)
(* depth_first_solve a skipped state was reached before by some route,     *)
(* which can have more edges than the route it is skipped on.              *)
(***************************************************************************)
C18_BFSSkippedRouteNotShorter ==
    \A r \in Runs :
        /\ DFSSkips(r) =>
            ReachedWithin(nodes[r], work[r], str(nodes[r][Head(work[r])].puzzle),
                          Len(nodes[r]))
        /\ BFSSkipsLonger(r)

\* breadth_first_search is about to skip an extension that is not the state
\* of the root, and depth_first_solve has skipped a node on a route shorter
\* than the one its state was first reached by
C18_Witness ==
    /\ engine[1] = "dfs" /\ engine[2] = "bfs"
    /\ Returned(1)
    /\ \E n \in 1..Len(nodes[1]) :
        /\ nodes[1][n].parent # None
        /\ ~ReachedWithin(nodes[1], <<n>>, str(nodes[1][n].puzzle), Depth(nodes[1], n))
    /\ BFSDequeues(2)
    /\ \E key \in BFSSkipped(2) : key # str(puzzle[2])

\* the cells of grid g that hold "*"
MNStars(g) == {c \in (1..Len(g)) \X (1..Len(g[1])) : g[c[1]][c[2]] = "*"}

\* the caller holds an MNPuzzle with exactly one "*" and extensions() has
\* returned
MNCalled ==
    /\ xpc = "called"
    /\ recv.kind = "MN"
    /\ Cardinality(MNStars(recv.from_grid)) = 1

(***************************************************************************)
(* C19: a move of an MNPuzzle can be undone: for a state s with exactly    *)
(* one "*" and every e in s.extensions(), a state with the from_grid and   *)
(* to_grid of s is in e.extensions(), and e has the to_grid of s.          *)
(***************************************************************************)
C19_MoveCanBeUndone ==
    MNCalled =>
        \A k \in 1..Len(ext_lst) :
            /\ ext_lst[k].to_grid = recv.to_grid
            /\ \E b \in 1..Len(MNExtensions(ext_lst[k])) :
                /\ MNExtensions(ext_lst[k])[b].from_grid = recv.from_grid
                /\ MNExtensions(ext_lst[k])[b].to_grid = recv.to_grid

\* extensions() has returned the four moves of a blank in the middle of a
\* 3x3 grid
C19_Witness == MNCalled /\ Len(ext_lst) = 4

\* grid g with the symbols of cells a and b exchanged
Exchanged(g, a, b) ==
    [g EXCEPT ![a[1]][a[2]] = g[b[1]][b[2]], ![b[1]][b[2]] = g[a[1]][a[2]]]

\* the neighbours of cell c inside grid g: left, right, up, down
Neighbours(g, c) ==
    SelectSeq(<< <<c[1], c[2] - 1>>, <<c[1], c[2] + 1>>,
                 <<c[1] - 1, c[2]>>, <<c[1] + 1, c[2]>> >>,
              LAMBDA n : n[1] \in 1..Len(g) /\ n[2] \in 1..Len(g[1]))

(***************************************************************************)
(* C20: on a grid with exactly one "*", MNPuzzle.extensions() returns one  *)
(* state for each neighbour of the blank inside the grid, the grid with    *)
(* the blank and that neighbour exchanged, in the order left, right, up,   *)
(* down; a blank in a corner gives two states, and the blank in the top    *)
(* middle of the 2x3 grid of the doctest three, the last one the exchange  *)
(* with the tile below.                                                    *)
(***************************************************************************)
C20_MovesLeftRightUpDown ==
    MNCalled =>
        LET g     == recv.from_grid
            blank == CHOOSE c \in MNStars(g) : TRUE
            nbrs  == Neighbours(g, blank)
        IN  /\ ext_lst = [k \in 1..Len(nbrs) |->
                            MNPuzzle(Exchanged(g, blank, nbrs[k]), recv.to_grid)]
            /\ (blank[1] \in {1, Len(g)} /\ blank[2] \in {1, Len(g[1])}) =>
                    Len(ext_lst) = 2
            /\ g = <<<<"1", "*", "4">>, <<"3", "2", "5">>>> =>
                /\ Len(ext_lst) = 3
                /\ ext_lst[3].from_grid = <<<<"1", "2", "4">>, <<"3", "*", "5">>>>

\* extensions() has returned for the grid of the doctest with the blank in
\* the top middle
C20_Witness ==
    /\ MNCalled
    /\ recv.from_grid = <<<<"1", "*", "4">>, <<"3", "2", "5">>>>
    /\ Len(ext_lst) = 3

(***************************************************************************)
(* C21: in either engine the returned path never holds the same state      *)
(* twice: the states of the chain from the root to the solved leaf have    *)
(* pairwise distinct canonical strings.                                    *)
(***************************************************************************)
C21_PathHasNoRepeat ==
    \A r \in Runs : (Returned(r) /\ result[r] # None) =>
        NoDuplicates([i \in 1..Len(PathStates(r)) |-> str(PathStates(r)[i])])

\* both engines have returned a path of at least three states for a puzzle
\* whose moves can be undone (a word ladder or a sliding puzzle)
C21_Witness ==
    /\ Returned(1) /\ Returned(2)
    /\ engine[1] = "dfs" /\ engine[2] = "bfs"
    /\ puzzle[1].kind # "GPS"
    /\ Edges(1) >= 3 /\ Edges(2) >= 2

\* the peg boards call r has met: its argument and the puzzles of its nodes
GPSMet(r) ==
    IF puzzle[r].kind = "GPS"
    THEN {puzzle[r]} \cup {nodes[r][n].puzzle : n \in 1..Len(nodes[r])}
    ELSE {}

(***************************************************************************)
(* C22: every state GridPegSolitairePuzzle.extensions() returns has        *)
(* exactly one peg fewer than the receiver, and for an initial board with  *)
(* k >= 1 pegs every path depth_first_solve or breadth_first_solve returns *)
(* has exactly k - 1 edges.                                                *)
(***************************************************************************)
C22_OnePegPerJump ==
    \A r \in Runs :
        /\ \A p \in GPSMet(r) : \A e \in Range(extensions(p)) :
                GPSCount(e.marker) = GPSCount(p.marker) - 1
        /\ (Returned(r) /\ result[r] # None /\ puzzle[r].kind = "GPS"
                /\ GPSCount(puzzle[r].marker) >= 1) =>
                Edges(r) = GPSCount(puzzle[r].marker) - 1

\* both engines have returned a path of three jumps for a board with four
\* pegs
C22_Witness ==
    /\ Returned(1) /\ Returned(2)
    /\ engine[1] = "dfs" /\ engine[2] = "bfs"
    /\ puzzle[1].kind = "GPS"
    /\ GPSCount(puzzle[1].marker) = 4
    /\ Edges(1) = 3 /\ Edges(2) = 3

RECURSIVE DistFrom(_, _, _, _)
\* the least number of extension steps from the initial state to a state
\* with canonical string key, -1 if there is none; computed layer by layer
DistFrom(frontier, seen, key, d) ==
    IF \E s \in frontier : str(s) = key THEN d
    ELSE IF frontier = {} THEN 0 - 1
    ELSE DistFrom(Successors(frontier) \ seen, seen \cup Successors(frontier),
                  key, d + 1)

Dist(p, key) == DistFrom({p}, {p}, key, 0)

\* the nodes call r has taken from its deque (for depth_first_solve also
\* the roots, which never enter it)
Taken(r) == {n \in 1..Len(nodes[r]) : n \notin Range(work[r])}

(***************************************************************************)
(* C23: breadth_first_solve dequeues nodes in non-decreasing order of tree *)
(* depth (the number of parent links to the root), and the first node      *)
(* dequeued for a state X has the least number of extension steps from the *)
(* initial state to X as its depth.                                        *)
(***************************************************************************)
C23_BFSLevelOrder ==
    \A r \in Runs : BFSDequeues(r) =>
        LET cwn == Head(work[r])
            key == str(nodes[r][cwn].puzzle)
        IN  /\ \A n \in Taken(r) : Depth(nodes[r], n) <= Depth(nodes[r], cwn)
            /\ (\A n \in Taken(r) : str(nodes[r][n].puzzle) # key) =>
                    Depth(nodes[r], cwn) = Dist(puzzle[r], key)

\* breadth_first_search is about to dequeue, for the first time, a node of
\* depth 2 while a node of the same depth for another state was dequeued
\* before and a state was enqueued twice
C23_Witness ==
    /\ BFSDequeues(1)
    /\ Depth(nodes[1], Head(work[1])) = 2
    /\ \A n \in Taken(1) :
        str(nodes[1][n].puzzle) # str(nodes[1][Head(work[1])].puzzle)
    /\ \E n \in Taken(1) : Depth(nodes[1], n) = 2
    /\ \E m, n \in 1..Len(nodes[1]) :
        m # n /\ str(nodes[1][m].puzzle) = str(nodes[1][n].puzzle)

====
